---- MODULE Spec2Model ----
(***************************************************************************)
(* Model of the bracelet solver (solver.py): the lattice built by          *)
(* setup_grid, the constraints emitted by setup_constraints and            *)
(* setup_serpinski_constraints, the solve call and the decode loop.        *)
(*                                                                         *)
(* A z3 constant is identified by its name (and sort): two calls           *)
(* z3.Const(name, Color) with the same name are the same variable.  A name *)
(* is the string the f-string builds.                                      *)
(***************************************************************************)
EXTENDS Integers, Sequences, FiniteSets, TLC

VARIABLES
    pc,                     \* position of the program
    num_strings, num_rows,  \* the arguments of setup_grid
    grid,                   \* the Grid
    constraints,            \* list returned by setup_constraints
    serpinski,              \* dict of setup_serpinski_constraints: id -> 0/1
    serpinski_constraints,  \* list built by setup_serpinski_constraints
    pos,                    \* index of the running loop
    model,                  \* assignment of the solver: variable name -> value
    out                     \* lines printed by the decode loop

vars == <<pc, num_strings, num_rows, grid, constraints, serpinski,
          serpinski_constraints, pos, model, out>>

(***************************************************************************)
(* Bounds of the explored inputs.                                          *)
(***************************************************************************)
MaxHalf == 4
MaxRows == 6

(***************************************************************************)
(* Sorts.                                                                  *)
(***************************************************************************)
LR == "leftright"
RL == "rightleft"
LL == "leftleft"
RR == "rightright"
KnotType == <<LR, RL, LL, RR>>

black == "black"
white == "white"
Color == <<black, white>>

Range(s) == {s[k] : k \in DOMAIN s}

(***************************************************************************)
(* Names of z3 constants: f"prefix{a}" and f"prefix{a}_{b}".               *)
(***************************************************************************)
Name1(prefix, a) == prefix \o ToString(a)
Name2(prefix, a, b) == prefix \o ToString(a) \o "_" \o ToString(b)

(***************************************************************************)
(* Nodes.  attrs holds the dataclass fields that are z3 constants.         *)
(***************************************************************************)
KnotNode(i, j) ==
    [kind |-> "KnotNode", i |-> i, j |-> j,
     attrs |-> [enter_left  |-> Name2("enter_left_", i, j),
                enter_right |-> Name2("enter_right_", i, j),
                exit_left   |-> Name2("exit_left_", i, j),
                exit_right  |-> Name2("exit_right_", i, j),
                knot        |-> Name2("knot_", i, j),
                color       |-> Name2("color_", i, j)]]

EdgeNode(i, j, enter_and_exit) ==
    [kind |-> "EdgeNode", i |-> i, j |-> j,
     attrs |-> [enter_and_exit |-> enter_and_exit]]

InitialStringNode(i, j, color) ==
    [kind |-> "InitialStringNode", i |-> i, j |-> j,
     attrs |-> [color |-> color]]

NodeId(node) == <<node.i, node.j>>

\* The accessors; an InitialStringNode has no enter_left / enter_right.
exit_left(node) ==
    CASE node.kind = "KnotNode" -> node.attrs.exit_left
      [] node.kind = "EdgeNode" -> node.attrs.enter_and_exit
      [] node.kind = "InitialStringNode" -> node.attrs.color

exit_right(node) ==
    CASE node.kind = "KnotNode" -> node.attrs.exit_right
      [] node.kind = "EdgeNode" -> node.attrs.enter_and_exit
      [] node.kind = "InitialStringNode" -> node.attrs.color

enter_left(node) ==
    CASE node.kind = "KnotNode" -> node.attrs.enter_left
      [] node.kind = "EdgeNode" -> node.attrs.enter_and_exit

enter_right(node) ==
    CASE node.kind = "KnotNode" -> node.attrs.enter_right
      [] node.kind = "EdgeNode" -> node.attrs.enter_and_exit

\* The z3 constants a node holds.
NodeVars(node) == {node.attrs[a] : a \in DOMAIN node.attrs}

(***************************************************************************)
(* Grid.  A dict is the sequence of its values in insertion order; an      *)
(* assignment to a key that is present replaces the value in place.        *)
(***************************************************************************)
EmptyGrid(width, height) ==
    [width |-> width, height |-> height, nodes |-> <<>>,
     knot_nodes |-> <<>>, edge_nodes |-> <<>>, string_nodes |-> <<>>]

Keys(dict) == {NodeId(dict[k]) : k \in DOMAIN dict}

DictGet(dict, id) == dict[CHOOSE k \in DOMAIN dict : NodeId(dict[k]) = id]

DictSet(dict, node) ==
    IF NodeId(node) \in Keys(dict)
    THEN [k \in DOMAIN dict |->
             IF NodeId(dict[k]) = NodeId(node) THEN node ELSE dict[k]]
    ELSE Append(dict, node)

Add(g, node) ==
    [g EXCEPT
       !.nodes = DictSet(@, node),
       !.knot_nodes = IF node.kind = "KnotNode" THEN DictSet(@, node) ELSE @,
       !.edge_nodes = IF node.kind = "EdgeNode" THEN DictSet(@, node) ELSE @,
       !.string_nodes =
           IF node.kind = "InitialStringNode" THEN DictSet(@, node) ELSE @]

\* upper_left_index without the special case of row 1
upper_left_index_NoRowOne(i, j) == <<i - 2, j - 2>>

upper_left_index(i, j) == IF i = 1 THEN <<i - 1, j - 1>> ELSE <<i - 2, j - 2>>

\* upper_right_index without the special case of row 1
upper_right_index_NoRowOne(i, j) == <<i - 2, j + 2>>

upper_right_index(i, j) == IF i = 1 THEN <<i - 1, j + 1>> ELSE <<i - 2, j + 2>>

has_upper_left(g, node) == upper_left_index(node.i, node.j) \in Keys(g.nodes)

has_upper_right(g, node) == upper_right_index(node.i, node.j) \in Keys(g.nodes)

upper_left(g, node) == DictGet(g.nodes, upper_left_index(node.i, node.j))

upper_right(g, node) == DictGet(g.nodes, upper_right_index(node.i, node.j))

\* knot_at without the test for the two edge columns
knot_at_NoEdgeTest(g, i, j) ==
    LET on_left_staggered == i % 4 = 1 /\ j % 4 = 2
        on_right_staggered == i % 4 = 3 /\ j % 4 = 0
    IN  on_left_staggered \/ on_right_staggered

knot_at(g, i, j) ==
    LET on_edge == j = 0 \/ j = g.width - 1
        on_left_staggered == i % 4 = 1 /\ j % 4 = 2
        on_right_staggered == i % 4 = 3 /\ j % 4 = 0
    IN  ~on_edge /\ (on_left_staggered \/ on_right_staggered)

(***************************************************************************)
(* setup_grid.  The loops thread the pair (grid, j): j is a local of the   *)
(* function, written by the string loop and by the knot loop of every row  *)
(* and read by the edge nodes' names.                                      *)
(***************************************************************************)
RECURSIVE StringLoop(_, _, _)
StringLoop(st, j, n) ==
    IF j >= n THEN st
    ELSE StringLoop(
             [grid |-> Add(st.grid,
                           InitialStringNode(0, 2 * j + 1,
                               Name1("initial_string_color_", j))),
              j |-> j],
             j + 1, n)

AddEdges(st, i, n) ==
    IF i % 4 = 3
    THEN [st EXCEPT !.grid =
             Add(Add(@, EdgeNode(i, 0, Name1("left_edge_", st.j))),
                 EdgeNode(i, 2 * n, Name1("right_edge_", st.j)))]
    ELSE st

RECURSIVE KnotLoop(_, _, _)
KnotLoop(st, i, j) ==
    IF j >= st.grid.width THEN st
    ELSE KnotLoop(
             [grid |-> IF knot_at(st.grid, i, j)
                       THEN Add(st.grid, KnotNode(i, j)) ELSE st.grid,
              j |-> j],
             i, j + 1)

RECURSIVE RowLoop(_, _, _)
RowLoop(st, i, n) ==
    IF i >= st.grid.height THEN st
    ELSE RowLoop(KnotLoop(AddEdges(st, i, n), i, 0), i + 1, n)

setup_grid(n, rows) ==
    LET g0 == EmptyGrid(2 * n + 1, 2 * rows)
        \* j is unbound before the first loop; n >= 1 binds it before any read
        s1 == StringLoop([grid |-> g0, j |-> 0], 0, n)
    IN  RowLoop(s1, 0, n).grid

(***************************************************************************)
(* Constraints.  A constraint is If(guard, And(body), True): guard is      *)
(* <<>> (no guard) or <<knot variable, knot type>>, body a list of         *)
(* equalities between terms; a term is a z3 constant or a value.           *)
(***************************************************************************)
Var(name) == <<"var", name>>
Val(value) == <<"val", value>>

Eq(lhs, rhs) == [guard |-> <<>>, body |-> <<<<lhs, rhs>>>>]
If(knot, type, body) == [guard |-> <<knot, type>>, body |-> body]

Eval(term, m) == IF term[1] = "var" THEN m[term[2]] ELSE term[2]

TermVars(term) == IF term[1] = "var" THEN {term[2]} ELSE {}

ConstraintVars(c) ==
    (IF c.guard = <<>> THEN {} ELSE {c.guard[1]})
    \cup UNION {TermVars(c.body[k][1]) \cup TermVars(c.body[k][2]) :
                k \in DOMAIN c.body}

\* The truth value of a constraint under an assignment of its variables.
Holds(c, m) ==
    IF c.guard # <<>> /\ m[c.guard[1]] # c.guard[2]
    THEN TRUE
    ELSE \A k \in DOMAIN c.body : Eval(c.body[k][1], m) = Eval(c.body[k][2], m)

\* the concatenation of a list of lists (by halves, to bound the recursion)
RECURSIVE Concat(_)
Concat(seqs) ==
    IF Len(seqs) = 0 THEN <<>>
    ELSE IF Len(seqs) = 1 THEN seqs[1]
    ELSE LET h == Len(seqs) \div 2
         IN  Concat(SubSeq(seqs, 1, h)) \o Concat(SubSeq(seqs, h + 1, Len(seqs)))

\* FlowConstraints without the crossing: enter_left taken from the upper-left
\* node's exit_left, enter_right from the upper-right node's exit_right
FlowConstraints_NoCrossing(g, node) ==
    (IF has_upper_left(g, node)
     THEN <<Eq(Var(enter_left(node)), Var(exit_left(upper_left(g, node))))>>
     ELSE <<>>)
    \o
    (IF has_upper_right(g, node)
     THEN <<Eq(Var(enter_right(node)), Var(exit_right(upper_right(g, node))))>>
     ELSE <<>>)

\* lines 216-220: the constraints of one node of grid.nodes
FlowConstraints(g, node) ==
    (IF has_upper_left(g, node)
     THEN <<Eq(Var(enter_left(node)), Var(exit_right(upper_left(g, node))))>>
     ELSE <<>>)
    \o
    (IF has_upper_right(g, node)
     THEN <<Eq(Var(enter_right(node)), Var(exit_left(upper_right(g, node))))>>
     ELSE <<>>)

\* KnotConstraints with the color of RL taken from enter_left
KnotConstraints_RLColor(knot_node) ==
    LET a == knot_node.attrs
    IN  <<If(a.knot, LR, <<<<Var(a.exit_right), Var(a.enter_left)>>,
                           <<Var(a.exit_left), Var(a.enter_right)>>,
                           <<Var(a.color), Var(a.enter_left)>>>>),
          If(a.knot, RL, <<<<Var(a.exit_left), Var(a.enter_right)>>,
                           <<Var(a.exit_right), Var(a.enter_left)>>,
                           <<Var(a.color), Var(a.enter_left)>>>>),
          If(a.knot, LL, <<<<Var(a.exit_left), Var(a.enter_left)>>,
                           <<Var(a.exit_right), Var(a.enter_right)>>,
                           <<Var(a.color), Var(a.enter_left)>>>>),
          If(a.knot, RR, <<<<Var(a.exit_left), Var(a.enter_left)>>,
                           <<Var(a.exit_right), Var(a.enter_right)>>,
                           <<Var(a.color), Var(a.enter_right)>>>>)>>

\* KnotConstraints with the body of LL copied from LR
KnotConstraints_LLSwaps(knot_node) ==
    LET a == knot_node.attrs
    IN  <<If(a.knot, LR, <<<<Var(a.exit_right), Var(a.enter_left)>>,
                           <<Var(a.exit_left), Var(a.enter_right)>>,
                           <<Var(a.color), Var(a.enter_left)>>>>),
          If(a.knot, RL, <<<<Var(a.exit_left), Var(a.enter_right)>>,
                           <<Var(a.exit_right), Var(a.enter_left)>>,
                           <<Var(a.color), Var(a.enter_right)>>>>),
          If(a.knot, LL, <<<<Var(a.exit_right), Var(a.enter_left)>>,
                           <<Var(a.exit_left), Var(a.enter_right)>>,
                           <<Var(a.color), Var(a.enter_left)>>>>),
          If(a.knot, RR, <<<<Var(a.exit_left), Var(a.enter_left)>>,
                           <<Var(a.exit_right), Var(a.enter_right)>>,
                           <<Var(a.color), Var(a.enter_right)>>>>)>>

\* lines 223-294: the four constraints of one knot node
KnotConstraints(knot_node) ==
    LET a == knot_node.attrs
    IN  <<If(a.knot, LR, <<<<Var(a.exit_right), Var(a.enter_left)>>,
                           <<Var(a.exit_left), Var(a.enter_right)>>,
                           <<Var(a.color), Var(a.enter_left)>>>>),
          If(a.knot, RL, <<<<Var(a.exit_left), Var(a.enter_right)>>,
                           <<Var(a.exit_right), Var(a.enter_left)>>,
                           <<Var(a.color), Var(a.enter_right)>>>>),
          If(a.knot, LL, <<<<Var(a.exit_left), Var(a.enter_left)>>,
                           <<Var(a.exit_right), Var(a.enter_right)>>,
                           <<Var(a.color), Var(a.enter_left)>>>>),
          If(a.knot, RR, <<<<Var(a.exit_left), Var(a.enter_left)>>,
                           <<Var(a.exit_right), Var(a.enter_right)>>,
                           <<Var(a.color), Var(a.enter_right)>>>>)>>

setup_constraints(g) ==
    Concat([k \in DOMAIN g.nodes |-> FlowConstraints(g, g.nodes[k])])
    \o Concat([k \in DOMAIN g.knot_nodes |-> KnotConstraints(g.knot_nodes[k])])

(***************************************************************************)
(* setup_serpinski_constraints.  The loop state is the dict serpinski, the *)
(* list of constraints and whether a lookup serpinski[...] has raised      *)
(* KeyError; SerpinskiIter is one iteration of the loop.                   *)
(***************************************************************************)
Abs(x) == IF x < 0 THEN -x ELSE x

EmptyDict == [id \in {} |-> 0]

\* (grid.width - 1) / 2; the width is odd, so the quotient is exact
Mid(g) == (g.width - 1) \div 2

OnBoundary(g, x, y) == Abs(y - Mid(g)) = x - 3

Interior(g, x, y) == Abs(y - Mid(g)) < x - 3

\* SerpinskiIter with black and white exchanged for the interior knots
SerpinskiIter_ColorsSwapped(g, st, knot_node) ==
    LET x == knot_node.i
        y == knot_node.j
        ul == upper_left_index(x, y)
        ur == upper_right_index(x, y)
    IN  IF OnBoundary(g, x, y)
        THEN [st EXCEPT
                !.serpinski = (<<x, y>> :> 1) @@ @,
                !.constraints =
                    Append(@, Eq(Var(knot_node.attrs.color), Val(black)))]
        ELSE IF Interior(g, x, y)
        THEN IF ul \notin DOMAIN st.serpinski \/ ur \notin DOMAIN st.serpinski
             THEN [st EXCEPT !.error = "KeyError"]
             ELSE LET serpinski_value ==
                          (st.serpinski[ul] + st.serpinski[ur]) % 2
                  IN  [st EXCEPT
                         !.serpinski = (<<x, y>> :> serpinski_value) @@ @,
                         !.constraints =
                             Append(@, Eq(Var(knot_node.attrs.color),
                                          Val(IF serpinski_value = 1
                                              THEN white ELSE black)))]
        ELSE st

SerpinskiIter(g, st, knot_node) ==
    LET x == knot_node.i
        y == knot_node.j
        ul == upper_left_index(x, y)
        ur == upper_right_index(x, y)
    IN  IF OnBoundary(g, x, y)
        THEN [st EXCEPT
                !.serpinski = (<<x, y>> :> 1) @@ @,
                !.constraints =
                    Append(@, Eq(Var(knot_node.attrs.color), Val(black)))]
        ELSE IF Interior(g, x, y)
        THEN IF ul \notin DOMAIN st.serpinski \/ ur \notin DOMAIN st.serpinski
             THEN [st EXCEPT !.error = "KeyError"]
             ELSE LET serpinski_value ==
                          (st.serpinski[ul] + st.serpinski[ur]) % 2
                  IN  [st EXCEPT
                         !.serpinski = (<<x, y>> :> serpinski_value) @@ @,
                         !.constraints =
                             Append(@, Eq(Var(knot_node.attrs.color),
                                          Val(IF serpinski_value = 1
                                              THEN black ELSE white)))]
        ELSE st

(***************************************************************************)
(* Spec: setup_grid, setup_constraints and setup_serpinski_constraints on  *)
(* every (num_strings, num_rows) within the bounds.                        *)
(***************************************************************************)
NoGrid == EmptyGrid(0, 0)

Init ==
    /\ pc = "start"
    /\ num_strings \in 1 .. 2 * MaxHalf
    /\ num_rows \in 1 .. MaxRows
    /\ grid = NoGrid
    /\ constraints = <<>>
    /\ serpinski = EmptyDict
    /\ serpinski_constraints = <<>>
    /\ pos = 0
    /\ model = EmptyDict
    /\ out = <<>>

\* assert num_strings % 2 == 0
SetupGridRejects ==
    /\ pc = "start"
    /\ num_strings % 2 # 0
    /\ pc' = "AssertionError"
    /\ UNCHANGED <<num_strings, num_rows, grid, constraints, serpinski,
                   serpinski_constraints, pos, model, out>>

SetupGrid ==
    /\ pc = "start"
    /\ num_strings % 2 = 0
    /\ grid' = setup_grid(num_strings, num_rows)
    /\ pc' = "grid"
    /\ UNCHANGED <<num_strings, num_rows, constraints, serpinski,
                   serpinski_constraints, pos, model, out>>

SetupConstraints ==
    /\ pc = "grid"
    /\ constraints' = setup_constraints(grid)
    /\ pc' = "serpinski"
    /\ pos' = 1
    /\ UNCHANGED <<num_strings, num_rows, grid, serpinski,
                   serpinski_constraints, model, out>>

\* one iteration of the loop of setup_serpinski_constraints
SerpinskiStep ==
    /\ pc = "serpinski"
    /\ pos <= Len(grid.knot_nodes)
    /\ LET st == SerpinskiIter(grid,
                     [serpinski |-> serpinski,
                      constraints |-> serpinski_constraints, error |-> ""],
                     grid.knot_nodes[pos])
       IN  /\ serpinski' = st.serpinski
           /\ serpinski_constraints' = st.constraints
           /\ pc' = IF st.error # "" THEN st.error ELSE pc
    /\ pos' = pos + 1
    /\ UNCHANGED <<num_strings, num_rows, grid, constraints, model, out>>

SerpinskiReturn ==
    /\ pc = "serpinski"
    /\ pos > Len(grid.knot_nodes)
    /\ pc' = "done"
    /\ UNCHANGED <<num_strings, num_rows, grid, constraints, serpinski,
                   serpinski_constraints, pos, model, out>>

Next ==
    \/ SetupGridRejects
    \/ SetupGrid
    \/ SetupConstraints
    \/ SerpinskiStep
    \/ SerpinskiReturn

Spec == Init /\ [][Next]_vars

(***************************************************************************)
(* Properties of the grid (Spec).                                          *)
(***************************************************************************)
GridBuilt == pc \in {"grid", "serpinski", "KeyError", "done"}

KindKeys(kind) == {NodeId(grid.nodes[k]) :
                      k \in {h \in DOMAIN grid.nodes : grid.nodes[h].kind = kind}}

ParityKnots(width, height) ==
    {<<r, c>> \in (0 .. height - 1) \X (1 .. width - 2) :
        (r % 4 = 1 /\ c % 4 = 2) \/ (r % 4 = 3 /\ c % 4 = 0)}

EdgeRows(height) == {r \in 0 .. height - 1 : r % 4 = 3}

\* C1: setup_grid(num_strings, num_rows) returns a grid of width
\* 2*num_strings+1 and height 2*num_rows holding exactly the initial strings
\* (0, c), c odd in 1..2*num_strings-1, the edge nodes (r, 0) and (r, width-1)
\* for the rows r = 3 mod 4, and the knots at the interior coordinates of the
\* parity rule; no coordinate holds two kinds; for (6, 3) these are the sets
\* of test_grid_setup.
C1_GridNodeSets ==
    GridBuilt =>
        LET w == 2 * num_strings + 1
            h == 2 * num_rows
        IN  /\ grid.width = w /\ grid.height = h
            /\ Keys(grid.string_nodes) =
                   {<<0, c>> : c \in {d \in 1 .. 2 * num_strings - 1 : d % 2 = 1}}
            /\ Len(grid.string_nodes) = num_strings
            /\ Keys(grid.edge_nodes) =
                   {<<r, 0>> : r \in EdgeRows(h)}
                   \cup {<<r, w - 1>> : r \in EdgeRows(h)}
            /\ Len(grid.edge_nodes) = 2 * Cardinality(EdgeRows(h))
            /\ Keys(grid.knot_nodes) = ParityKnots(w, h)
            /\ Len(grid.knot_nodes) = Cardinality(ParityKnots(w, h))
            \* the kind stored at a coordinate is the kind of its sub-dict
            /\ KindKeys("InitialStringNode") = Keys(grid.string_nodes)
            /\ KindKeys("EdgeNode") = Keys(grid.edge_nodes)
            /\ KindKeys("KnotNode") = Keys(grid.knot_nodes)
            /\ Len(grid.nodes) = Len(grid.string_nodes)
                   + Len(grid.edge_nodes) + Len(grid.knot_nodes)
            /\ Cardinality(Keys(grid.nodes)) = Len(grid.nodes)
            /\ (num_strings = 6 /\ num_rows = 3) =>
                   /\ Keys(grid.knot_nodes) =
                          {<<1, 2>>, <<1, 6>>, <<1, 10>>, <<3, 4>>, <<3, 8>>,
                           <<5, 2>>, <<5, 6>>, <<5, 10>>}
                   /\ Keys(grid.edge_nodes) = {<<3, 0>>, <<3, 12>>}
                   /\ Keys(grid.string_nodes) =
                          {<<0, 1>>, <<0, 3>>, <<0, 5>>, <<0, 7>>, <<0, 9>>,
                           <<0, 11>>}

C1_Witness ==
    /\ pc = "grid" /\ num_strings = 6 /\ num_rows = 3
    /\ Len(grid.knot_nodes) = 8 /\ Len(grid.edge_nodes) = 2

\* C2: in every grid built by setup_grid each attribute of each node is a
\* variable of its own: the attributes of one node are pairwise different
\* variables and two distinct nodes never share a variable.
C2_NoSharedVariable ==
    GridBuilt =>
        /\ \A k \in DOMAIN grid.nodes :
              Cardinality(NodeVars(grid.nodes[k]))
                  = Cardinality(DOMAIN grid.nodes[k].attrs)
        /\ \A k, h \in DOMAIN grid.nodes :
              k # h => NodeVars(grid.nodes[k]) \cap NodeVars(grid.nodes[h]) = {}

\* The part of C2 the code satisfies: the two edge nodes of one row differ.
C2_SameRowEdgesDiffer ==
    GridBuilt =>
        \A k, h \in DOMAIN grid.edge_nodes :
            (k # h /\ grid.edge_nodes[k].i = grid.edge_nodes[h].i) =>
                grid.edge_nodes[k].attrs.enter_and_exit
                    # grid.edge_nodes[h].attrs.enter_and_exit

\* C8: every knot has both predecessor coordinates in the grid (offset 1 in
\* row 1, else 2), every edge node exactly one (upper-right for the left edge,
\* upper-left for the right edge), no initial string has any; setup_constraints
\* emits two flow constraints per knot, one per edge node, none per string.
PredOffset(r) == IF r = 1 THEN 1 ELSE 2

HasUL(node) ==
    <<node.i - PredOffset(node.i), node.j - PredOffset(node.i)>>
        \in Keys(grid.nodes)

HasUR(node) ==
    <<node.i - PredOffset(node.i), node.j + PredOffset(node.i)>>
        \in Keys(grid.nodes)

FlowIndices == {k \in DOMAIN constraints : constraints[k].guard = <<>>}

FlowWithLhs(names) ==
    {k \in FlowIndices : constraints[k].body[1][1][2] \in names}

C8_Predecessors ==
    /\ GridBuilt =>
         /\ \A k \in DOMAIN grid.knot_nodes :
               HasUL(grid.knot_nodes[k]) /\ HasUR(grid.knot_nodes[k])
         /\ \A k \in DOMAIN grid.edge_nodes :
               LET e == grid.edge_nodes[k]
               IN  IF e.j = 0 THEN ~HasUL(e) /\ HasUR(e)
                              ELSE HasUL(e) /\ ~HasUR(e)
         /\ \A k \in DOMAIN grid.string_nodes :
               ~HasUL(grid.string_nodes[k]) /\ ~HasUR(grid.string_nodes[k])
    /\ pc \in {"serpinski", "KeyError", "done"} =>
         /\ Cardinality(FlowIndices)
               = 2 * Len(grid.knot_nodes) + Len(grid.edge_nodes)
         /\ \A k \in DOMAIN grid.knot_nodes :
               LET a == grid.knot_nodes[k].attrs
               IN  /\ Cardinality(FlowWithLhs({a.enter_left})) = 1
                   /\ Cardinality(FlowWithLhs({a.enter_right})) = 1
         /\ Cardinality(FlowWithLhs(
                UNION {NodeVars(grid.edge_nodes[k]) :
                          k \in DOMAIN grid.edge_nodes}))
               = Len(grid.edge_nodes)
         /\ FlowWithLhs(UNION {NodeVars(grid.string_nodes[k]) :
                                  k \in DOMAIN grid.string_nodes}) = {}

C8_Witness ==
    /\ pc = "serpinski" /\ pos = 1
    /\ num_strings = 4 /\ num_rows = 4
    /\ Cardinality(FlowIndices) = 2 * 6 + 4

(***************************************************************************)
(* Properties of setup_serpinski_constraints (Spec).                       *)
(***************************************************************************)
\* C3: whenever the loop reaches an interior knot, the values of both its
\* upper-left and upper-right predecessor have been recorded, so no lookup
\* fails and the generator always completes.
C3_PredecessorsRecorded ==
    /\ pc # "KeyError"
    /\ (pc = "serpinski" /\ pos <= Len(grid.knot_nodes)) =>
          LET n == grid.knot_nodes[pos]
              mid == (grid.width - 1) \div 2
              d == PredOffset(n.i)
          IN  Abs(n.j - mid) < n.i - 3 =>
                  /\ <<n.i - d, n.j - d>> \in DOMAIN serpinski
                  /\ <<n.i - d, n.j + d>> \in DOMAIN serpinski

\* C7: when setup_serpinski_constraints completes it has emitted exactly one
\* color constraint per knot on or inside the triangle and none outside:
\* black (recorded 1) on the boundary abs(col - mid) = row - 3; inside, black
\* iff the recorded values of the two predecessors sum to 1 mod 2, else white.
ColorConstraintsOf(knot_node) ==
    {k \in DOMAIN serpinski_constraints :
        serpinski_constraints[k].body[1][1] = Var(knot_node.attrs.color)}

C7_TriangleConstraints ==
    pc = "done" =>
        LET mid == (grid.width - 1) \div 2
        IN  /\ \A k \in DOMAIN serpinski_constraints :
                  /\ serpinski_constraints[k].guard = <<>>
                  /\ Len(serpinski_constraints[k].body) = 1
            /\ \A k \in DOMAIN grid.knot_nodes :
                  LET n == grid.knot_nodes[k]
                      d == PredOffset(n.i)
                      cs == ColorConstraintsOf(n)
                  IN  IF Abs(n.j - mid) = n.i - 3
                      THEN /\ Cardinality(cs) = 1
                           /\ \A c \in cs :
                                 serpinski_constraints[c].body[1][2] = Val(black)
                           /\ serpinski[NodeId(n)] = 1
                      ELSE IF Abs(n.j - mid) < n.i - 3
                      THEN LET v == (serpinski[<<n.i - d, n.j - d>>]
                                     + serpinski[<<n.i - d, n.j + d>>]) % 2
                           IN  /\ Cardinality(cs) = 1
                               /\ \A c \in cs :
                                     serpinski_constraints[c].body[1][2]
                                         = Val(IF v = 1 THEN black ELSE white)
                               /\ serpinski[NodeId(n)] = v
                      ELSE /\ cs = {}
                           /\ NodeId(n) \notin DOMAIN serpinski
            /\ Len(serpinski_constraints) = Cardinality(DOMAIN serpinski)

\* a completed run with boundary, interior (both colors) and outside knots
C7_Witness ==
    /\ pc = "done"
    /\ num_strings = 8 /\ num_rows = 6
    /\ \E k, h \in DOMAIN serpinski_constraints :
          /\ serpinski_constraints[k].body[1][2] = Val(white)
          /\ serpinski_constraints[h].body[1][2] = Val(black)
          /\ \E a, b \in DOMAIN grid.knot_nodes :
                /\ Interior(grid, grid.knot_nodes[a].i, grid.knot_nodes[a].j)
                /\ Interior(grid, grid.knot_nodes[b].i, grid.knot_nodes[b].j)
                /\ serpinski_constraints[k].body[1][1]
                       = Var(grid.knot_nodes[a].attrs.color)
                /\ serpinski_constraints[h].body[1][1]
                       = Var(grid.knot_nodes[b].attrs.color)
    /\ Len(serpinski_constraints) < Len(grid.knot_nodes)

(***************************************************************************)
(* The solver.  solver.check() answers sat exactly when some assignment of *)
(* a value of its sort to every constant satisfies every constraint, and   *)
(* solver.model() is then any such assignment.  The knot attribute of a    *)
(* KnotNode has sort KnotType; every other attribute has sort Color.       *)
(***************************************************************************)
AttrSort(attr) == IF attr = "knot" THEN Range(KnotType) ELSE Range(Color)

\* the assignments of the constants of one node that extend m
NodeAssignments(node, m) ==
    LET mine == NodeVars(node)
        all == CASE node.kind = "KnotNode" ->
                      LET a == node.attrs
                      IN  {(a.enter_left :> t[1]) @@ (a.enter_right :> t[2])
                           @@ (a.exit_left :> t[3]) @@ (a.exit_right :> t[4])
                           @@ (a.color :> t[5]) @@ (a.knot :> t[6]) :
                           t \in AttrSort("enter_left") \X AttrSort("enter_right")
                                 \X AttrSort("exit_left") \X AttrSort("exit_right")
                                 \X AttrSort("color") \X AttrSort("knot")}
                 [] node.kind = "EdgeNode" ->
                      {(node.attrs.enter_and_exit :> v) :
                          v \in AttrSort("enter_and_exit")}
                 [] node.kind = "InitialStringNode" ->
                      {(node.attrs.color :> v) : v \in AttrSort("color")}
        bound == mine \cap DOMAIN m
    IN  IF bound = {} THEN all ELSE {f \in all : \A v \in bound : f[v] = m[v]}

\* the constraints that assigning the constants of node decides: those that
\* mention one of them and mention nothing else that m leaves open
FreshConstraints(cs, node, m) ==
    {cs[k] : k \in {h \in DOMAIN cs :
                      /\ ConstraintVars(cs[h]) \cap NodeVars(node) # {}
                      /\ ConstraintVars(cs[h])
                             \subseteq DOMAIN m \cup NodeVars(node)}}

\* the constraints all of whose constants m assigns
Decided(cs, m) == {k \in DOMAIN cs : ConstraintVars(cs[k]) \subseteq DOMAIN m}

Satisfies(cs, m) == \A k \in Decided(cs, m) : Holds(cs[k], m)

(***************************************************************************)
(* KnotSpec: the four knot constraints of the knot of the 2-string, 1-row  *)
(* grid, under every assignment of the knot's six constants.               *)
(***************************************************************************)
KnotInit ==
    /\ pc = "knot"
    /\ num_strings = 2
    /\ num_rows = 1
    /\ grid = setup_grid(2, 1)
    /\ constraints = KnotConstraints(grid.knot_nodes[1])
    /\ serpinski = EmptyDict
    /\ serpinski_constraints = <<>>
    /\ pos = 0
    /\ model \in NodeAssignments(grid.knot_nodes[1], EmptyDict)
    /\ out = <<>>

KnotCheck ==
    /\ pc = "knot"
    /\ pc' = IF Satisfies(constraints, model) THEN "sat" ELSE "unsat"
    /\ UNCHANGED <<num_strings, num_rows, grid, constraints, serpinski,
                   serpinski_constraints, pos, model, out>>

KnotNext == KnotCheck

KnotSpec == KnotInit /\ [][KnotNext]_vars

TheKnot == grid.knot_nodes[1].attrs

Outputs(m) == <<m[TheKnot.exit_left], m[TheKnot.exit_right], m[TheKnot.color]>>

KnotTable(k, l, r) ==
    CASE k = LR -> <<r, l, l>>
      [] k = RL -> <<r, l, r>>
      [] k = LL -> <<l, r, l>>
      [] k = RR -> <<l, r, r>>

\* C4: an assignment satisfies the four knot constraints exactly when its
\* (exit_left, exit_right, color) is the table's function of the knot type
\* and (enter_left, enter_right) = (l, r): LR -> (r, l, l), RL -> (r, l, r),
\* LL -> (l, r, l), RR -> (l, r, r); exactly one guard holds.
C4_KnotTable ==
    pc \in {"sat", "unsat"} =>
        /\ (pc = "sat") <=>
               Outputs(model) = KnotTable(model[TheKnot.knot],
                                          model[TheKnot.enter_left],
                                          model[TheKnot.enter_right])
        /\ Cardinality({k \in DOMAIN constraints :
                           model[constraints[k].guard[1]]
                               = constraints[k].guard[2]}) = 1

C4_Witness ==
    /\ pc = "sat"
    /\ model[TheKnot.knot] = LR
    /\ model[TheKnot.enter_left] = black
    /\ model[TheKnot.enter_right] = white
    /\ Outputs(model) = <<white, black, black>>

\* the triples some satisfying assignment with the state's (enter_left,
\* enter_right) and knot type k has
BranchOutputs(k) ==
    {Outputs(m) : m \in {f \in NodeAssignments(grid.knot_nodes[1], EmptyDict) :
                            /\ f[TheKnot.enter_left] = model[TheKnot.enter_left]
                            /\ f[TheKnot.enter_right] = model[TheKnot.enter_right]
                            /\ f[TheKnot.knot] = k
                            /\ Satisfies(constraints, f)}}

\* C5: for any fixed (enter_left, enter_right), equal or not, the branches
\* LR, RL, LL, RR yield four pairwise distinct triples.
C5_BranchesDistinct ==
    pc = "sat" =>
        /\ \A k \in Range(KnotType) : Cardinality(BranchOutputs(k)) = 1
        /\ \A k, h \in Range(KnotType) :
              k # h => BranchOutputs(k) \cap BranchOutputs(h) = {}

\* C5 amended: each branch yields one triple; the four triples are pairwise
\* distinct when enter_left # enter_right, and all equal (l, l, l) when
\* enter_left = enter_right = l.
C5_BranchesDistinctUnlessEqual ==
    pc = "sat" =>
        LET l == model[TheKnot.enter_left]
            r == model[TheKnot.enter_right]
        IN  /\ \A k \in Range(KnotType) : Cardinality(BranchOutputs(k)) = 1
            /\ l # r =>
                  \A k, h \in Range(KnotType) :
                      k # h => BranchOutputs(k) \cap BranchOutputs(h) = {}
            /\ l = r =>
                  \A k \in Range(KnotType) : BranchOutputs(k) = {<<l, l, l>>}

C5_Witness ==
    /\ pc = "sat"
    /\ model[TheKnot.knot] = RR
    /\ model[TheKnot.enter_left] = white
    /\ model[TheKnot.enter_right] = black
    /\ Cardinality(UNION {BranchOutputs(k) : k \in Range(KnotType)}) = 4

(***************************************************************************)
(* FlowSpec: the solver on the constraints of setup_constraints.  The      *)
(* assignment is built node by node in the order of grid.nodes; a prefix   *)
(* is kept only if it satisfies every constraint it decides, so the states *)
(* with pc = "sat" are exactly the satisfying assignments.                 *)
(***************************************************************************)
\* The grids explored are those with num_strings / 2 + (number of knots) at
\* most FlowMaxUnits: such a grid has at most 4 ^ FlowMaxUnits satisfying
\* assignments.
FlowMaxUnits == 7

FlowInit ==
    /\ pc = "solve"
    /\ num_strings \in {2 * h : h \in 1 .. FlowMaxUnits}
    /\ num_rows \in 1 .. 2 * FlowMaxUnits
    /\ grid = setup_grid(num_strings, num_rows)
    /\ num_strings \div 2 + Len(grid.knot_nodes) <= FlowMaxUnits
    /\ constraints = setup_constraints(grid)
    /\ serpinski = EmptyDict
    /\ serpinski_constraints = <<>>
    /\ pos = 1
    /\ model = EmptyDict
    /\ out = <<>>

SolveNode ==
    /\ pc = "solve"
    /\ pos <= Len(grid.nodes)
    /\ \E fresh \in {FreshConstraints(constraints, grid.nodes[pos], model)} :
          \E f \in NodeAssignments(grid.nodes[pos], model) :
              \E extended \in {f @@ model} :
                  /\ \A c \in fresh : Holds(c, extended)
                  /\ model' = extended
    /\ pos' = pos + 1
    /\ UNCHANGED <<pc, num_strings, num_rows, grid, constraints, serpinski,
                   serpinski_constraints, out>>

SolveReturn ==
    /\ pc = "solve"
    /\ pos > Len(grid.nodes)
    /\ pc' = "sat"
    /\ UNCHANGED <<num_strings, num_rows, grid, constraints, serpinski,
                   serpinski_constraints, pos, model, out>>

FlowNext == SolveNode \/ SolveReturn

FlowSpec == FlowInit /\ [][FlowNext]_vars

\* every assignment the search keeps satisfies all the constraints it decides
FlowModelSatisfies == pc \in {"solve", "sat"} => Satisfies(constraints, model)

RowKnots(r) == {k \in DOMAIN grid.knot_nodes : grid.knot_nodes[k].i = r}
RowEdges(r) == {k \in DOMAIN grid.edge_nodes : grid.edge_nodes[k].i = r}

\* how many threads of color c enter the nodes of row r
Entering(r, c) ==
    Cardinality({k \in RowKnots(r) :
                    model[grid.knot_nodes[k].attrs.enter_left] = c})
    + Cardinality({k \in RowKnots(r) :
                      model[grid.knot_nodes[k].attrs.enter_right] = c})
    + Cardinality({k \in RowEdges(r) :
                      model[grid.edge_nodes[k].attrs.enter_and_exit] = c})

InitialStrings(c) ==
    Cardinality({k \in DOMAIN grid.string_nodes :
                    model[grid.string_nodes[k].attrs.color] = c})

\* C10: in every assignment satisfying the constraints of setup_constraints,
\* for every odd row r < height the multiset of colors entering the nodes of
\* row r has num_strings elements and equals the multiset of the initial
\* strings' colors.
C10_ThreadConservation ==
    pc = "sat" =>
        \A r \in {q \in 0 .. grid.height - 1 : q % 2 = 1} :
            /\ 2 * Cardinality(RowKnots(r)) + Cardinality(RowEdges(r))
                   = num_strings
            /\ \A c \in Range(Color) : Entering(r, c) = InitialStrings(c)

\* a solved 4-string grid with an edge row, mixed colors and a swap
C10_Witness ==
    /\ pc = "sat"
    /\ num_strings = 4 /\ num_rows = 3
    /\ InitialStrings(black) = 1
    /\ model[grid.knot_nodes[1].attrs.enter_left]
           # model[grid.knot_nodes[1].attrs.enter_right]
    /\ model[grid.knot_nodes[1].attrs.knot] = LR

(***************************************************************************)
(* The decode loop of __main__ (lines 362-376).  A printed line is the     *)
(* sequence of its characters.                                             *)
(***************************************************************************)
\* itertools.groupby on the row: runs of consecutive knots with equal row
\* (computed by halves: the groups of the two halves, the last group of the
\* first joined to the first group of the second when their rows are equal)
RECURSIVE GroupByRow(_)
GroupByRow(dict) ==
    IF Len(dict) = 0 THEN <<>>
    ELSE IF Len(dict) = 1 THEN <<dict>>
    ELSE LET h == Len(dict) \div 2
             left == GroupByRow(SubSeq(dict, 1, h))
             right == GroupByRow(SubSeq(dict, h + 1, Len(dict)))
         IN  IF left[Len(left)][1].i = right[1][1].i
             THEN SubSeq(left, 1, Len(left) - 1)
                  \o <<left[Len(left)] \o right[1]>>
                  \o Tail(right)
             ELSE left \o right

knot_rows(g) == GroupByRow(g.knot_nodes)

knot_names(k) ==
    CASE k = LR -> "A" [] k = RL -> "B" [] k = LL -> "C" [] k = RR -> "D"

\* sep.join(strs) for one-character strings
RECURSIVE Join(_, _)
Join(sep, strs) ==
    IF Len(strs) <= 1 THEN strs
    ELSE <<Head(strs)>> \o <<sep>> \o Join(sep, Tail(strs))

\* DecodeLine with the leading marker tested against column 0
DecodeLine_StartAtZero(g, m, row) ==
    LET first_col == row[1].j
        last_col == row[Len(row)].j
        start == IF first_col = 0 THEN <<>> ELSE <<"_">>
        end == IF last_col = g.width - 3 THEN <<>> ELSE <<"_">>
    IN  start \o Join("_", [k \in DOMAIN row |-> knot_names(m[row[k].attrs.knot])])
        \o end

\* lines 370-376: the line printed for one row of knot_rows()
DecodeLine(g, m, row) ==
    LET first_col == row[1].j
        last_col == row[Len(row)].j
        start == IF first_col = 2 THEN <<>> ELSE <<"_">>
        end == IF last_col = g.width - 3 THEN <<>> ELSE <<"_">>
    IN  start \o Join("_", [k \in DOMAIN row |-> knot_names(m[row[k].attrs.knot])])
        \o end

DecodeRow ==
    /\ pc = "decode"
    /\ pos <= Len(knot_rows(grid))
    /\ out' = Append(out, DecodeLine(grid, model, knot_rows(grid)[pos]))
    /\ pos' = pos + 1
    /\ UNCHANGED <<pc, num_strings, num_rows, grid, constraints, serpinski,
                   serpinski_constraints, model>>

DecodeReturn ==
    /\ pc = "decode"
    /\ pos > Len(knot_rows(grid))
    /\ pc' = "printed"
    /\ UNCHANGED <<num_strings, num_rows, grid, constraints, serpinski,
                   serpinski_constraints, pos, model, out>>

(***************************************************************************)
(* DecodeSpec: the decode loop on every grid with at most DecMaxKnots      *)
(* knots, under every assignment of a knot type to every knot constant     *)
(* (the only constants the loop evaluates).                                *)
(***************************************************************************)
DecMaxKnots == 5

KnotVars(g) == {g.knot_nodes[k].attrs.knot : k \in DOMAIN g.knot_nodes}

DecodeInit ==
    /\ pc = "decode"
    /\ num_strings \in {2 * h : h \in 1 .. DecMaxKnots}
    /\ num_rows \in 1 .. 2 * DecMaxKnots
    /\ grid = setup_grid(num_strings, num_rows)
    /\ Len(grid.knot_nodes) <= DecMaxKnots
    /\ constraints = <<>>
    /\ serpinski = EmptyDict
    /\ serpinski_constraints = <<>>
    /\ pos = 1
    /\ model \in [KnotVars(grid) -> Range(KnotType)]
    /\ out = <<>>

DecodeNext == DecodeRow \/ DecodeReturn

DecodeSpec == DecodeInit /\ [][DecodeNext]_vars

\* the rows holding a knot, and the columns of the knots of a row
RowsWithKnots == {id[1] : id \in Keys(grid.knot_nodes)}
ColsOf(r) == {id[2] : id \in {q \in Keys(grid.knot_nodes) : q[1] = r}}

\* the k-th smallest element of a set of numbers
Nth(S, k) == CHOOSE x \in S : Cardinality({y \in S : y < x}) = k - 1

CodeAt(r, c) ==
    LET t == model[Name2("knot_", r, c)]
    IN  IF t = LR THEN "A" ELSE IF t = RL THEN "B"
        ELSE IF t = LL THEN "C" ELSE "D"

\* str.split("_") without the empty pieces, for one-character codes
RECURSIVE SplitCodes(_)
SplitCodes(line) ==
    IF line = <<>> THEN <<>>
    ELSE IF Head(line) = "_" THEN SplitCodes(Tail(line))
    ELSE <<Head(line)>> \o SplitCodes(Tail(line))

\* C9: the decode loop prints one line per row holding a knot, in increasing
\* row order; a line is the row's codes (LR->A, RL->B, LL->C, RR->D) in
\* ascending column order joined by "_", with a leading "_" exactly when the
\* first knot column is not 2 and a trailing "_" exactly when the last is not
\* width-3; rows = 1 mod 4 carry no marker, rows = 3 mod 4 carry both; the
\* line without its "_" is the row's codes.
C9_DecodedLines ==
    pc \in {"decode", "printed"} =>
        /\ Len(out) = pos - 1
        /\ pc = "printed" => Len(out) = Cardinality(RowsWithKnots)
        /\ \A k \in DOMAIN out :
              LET r == Nth(RowsWithKnots, k)
                  cols == ColsOf(r)
                  n == Cardinality(cols)
                  lead == IF Nth(cols, 1) # 2 THEN 1 ELSE 0
                  trail == IF Nth(cols, n) # grid.width - 3 THEN 1 ELSE 0
                  line == out[k]
              IN  /\ Len(line) = lead + (2 * n - 1) + trail
                  /\ lead = 1 => line[1] = "_"
                  /\ trail = 1 => line[Len(line)] = "_"
                  /\ \A h \in 1 .. n :
                        line[lead + 2 * h - 1] = CodeAt(r, Nth(cols, h))
                  /\ \A h \in 1 .. n - 1 : line[lead + 2 * h] = "_"
                  /\ r % 4 = 1 => lead = 0 /\ trail = 0
                  /\ r % 4 = 3 => lead = 1 /\ trail = 1
                  /\ SplitCodes(line) = [h \in 1 .. n |-> CodeAt(r, Nth(cols, h))]

\* both kinds of row printed, with all four codes in the output
C9_Witness ==
    /\ pc = "printed"
    /\ num_strings = 4 /\ num_rows = 3
    /\ out[2] = <<"_", "B", "_">>
    /\ out[1] = <<"A", "_", "C">>
    /\ out[3] = <<"D", "_", "A">>

(***************************************************************************)
(* MainSpec: __main__ with num_strings = 32 and num_rows = 17.  The solver *)
(* is a black box; the model answers "sat" by checking an assignment found *)
(* for these constraints (MainModel) against every constraint, and has no  *)
(* answer ("no_model") if that assignment fails.                           *)
(***************************************************************************)
MainStrings == 32
MainRows == 17

MainModelStrings ==
    <<black, black, black, black, white, black, white, black,
      black, white, black, white, black, black, white, black,
      white, black, white, black, white, black, black, white,
      white, black, white, black, white, black, black, black>>

MainModelEdges ==
    <<black, black, black, black, black, black, black, black,
      black, black, black, black, black, black, black, black>>

MainModelKnots ==
    <<<<black, black, black, black, black, RR>>,
      <<black, black, black, black, black, RR>>,
      <<white, black, white, black, black, RR>>,
      <<white, black, white, black, black, RR>>,
      <<black, white, black, white, black, LL>>,
      <<black, white, black, white, black, LL>>,
      <<black, black, black, black, black, RR>>,
      <<white, black, white, black, black, RR>>,
      <<white, black, white, black, black, RR>>,
      <<white, black, white, black, black, RR>>,
      <<white, black, white, black, black, RR>>,
      <<black, white, black, white, black, LL>>,
      <<white, black, white, black, black, RR>>,
      <<white, black, white, black, black, RR>>,
      <<white, black, white, black, black, RR>>,
      <<black, black, black, black, black, RR>>,
      <<black, black, black, black, black, RR>>,
      <<black, white, black, white, black, LL>>,
      <<black, white, black, white, black, LL>>,
      <<black, black, black, black, black, RR>>,
      <<white, black, white, black, black, RR>>,
      <<white, black, white, black, black, RR>>,
      <<black, white, black, white, black, LL>>,
      <<black, white, black, white, black, LL>>,
      <<black, white, black, white, black, LL>>,
      <<black, white, black, white, black, LL>>,
      <<black, black, black, black, black, RR>>,
      <<white, white, white, white, white, RL>>,
      <<black, white, black, white, black, LL>>,
      <<black, white, black, white, black, LL>>,
      <<black, black, black, black, black, RR>>,
      <<black, black, black, black, black, RR>>,
      <<black, black, black, black, black, RR>>,
      <<white, black, white, black, black, RR>>,
      <<white, black, white, black, black, RR>>,
      <<black, white, white, black, black, LR>>,
      <<black, white, black, white, black, LL>>,
      <<black, black, black, black, black, RR>>,
      <<white, black, white, black, black, RR>>,
      <<white, black, white, black, black, RR>>,
      <<white, black, white, black, black, RR>>,
      <<white, black, white, black, black, RR>>,
      <<black, white, white, black, black, LR>>,
      <<white, black, white, black, black, RR>>,
      <<white, black, white, black, black, RR>>,
      <<white, black, white, black, black, RR>>,
      <<black, black, black, black, black, RR>>,
      <<black, black, black, black, black, RR>>,
      <<black, white, black, white, black, LL>>,
      <<black, white, black, white, black, LL>>,
      <<black, white, black, white, black, LL>>,
      <<black, black, black, black, black, RL>>,
      <<white, black, white, black, black, RR>>,
      <<black, white, black, white, black, LL>>,
      <<black, white, black, white, white, RR>>,
      <<black, white, black, white, black, LL>>,
      <<black, white, black, white, black, LL>>,
      <<black, white, black, white, black, LL>>,
      <<black, white, white, black, black, LR>>,
      <<black, white, black, white, black, LL>>,
      <<black, white, black, white, black, LL>>,
      <<black, black, black, black, black, RR>>,
      <<black, black, black, black, black, RR>>,
      <<black, black, black, black, black, RR>>,
      <<white, black, white, black, black, RR>>,
      <<white, black, black, white, black, RL>>,
      <<white, black, black, white, white, LR>>,
      <<black, white, black, white, black, LL>>,
      <<black, black, black, black, black, RR>>,
      <<white, black, white, black, black, RR>>,
      <<white, black, white, black, black, RR>>,
      <<white, black, white, black, black, RR>>,
      <<white, black, white, black, black, RR>>,
      <<white, white, white, white, white, RL>>,
      <<black, black, black, black, black, RR>>,
      <<white, black, white, black, black, RR>>,
      <<white, black, white, black, black, RR>>,
      <<black, black, black, black, black, RR>>,
      <<black, black, black, black, black, RR>>,
      <<black, white, black, white, black, LL>>,
      <<black, black, black, black, black, RR>>,
      <<white, black, black, white, black, RL>>,
      <<white, black, white, black, black, RR>>,
      <<white, black, white, black, black, RR>>,
      <<black, white, black, white, white, RR>>,
      <<black, white, black, white, white, RR>>,
      <<black, white, black, white, white, RR>>,
      <<black, white, black, white, black, LL>>,
      <<black, white, black, white, black, LL>>,
      <<white, black, black, white, black, RL>>,
      <<black, white, black, white, black, LL>>,
      <<black, white, black, white, black, LL>>,
      <<black, black, black, black, black, RR>>,
      <<black, black, black, black, black, RR>>,
      <<black, black, black, black, black, RR>>,
      <<white, black, white, black, black, RR>>,
      <<black, black, black, black, black, RR>>,
      <<white, white, white, white, white, RL>>,
      <<black, white, black, white, black, LL>>,
      <<black, black, black, black, black, RR>>,
      <<white, black, white, black, white, LL>>,
      <<white, black, white, black, white, LL>>,
      <<white, black, white, black, black, RR>>,
      <<white, black, white, black, black, RR>>,
      <<white, black, black, white, white, LR>>,
      <<white, black, black, white, black, RL>>,
      <<white, black, white, black, black, RR>>,
      <<white, black, white, black, black, RR>>,
      <<black, black, black, black, black, RR>>,
      <<black, black, black, black, black, RR>>,
      <<black, white, black, white, black, LL>>,
      <<black, black, black, black, black, RR>>,
      <<black, white, black, white, black, LL>>,
      <<white, black, black, white, black, RL>>,
      <<white, black, black, white, white, LR>>,
      <<black, white, black, white, black, LL>>,
      <<black, white, black, white, white, RR>>,
      <<black, white, black, white, black, LL>>,
      <<black, white, black, white, white, RR>>,
      <<black, black, black, black, black, LL>>,
      <<white, black, black, white, black, RL>>,
      <<white, white, white, white, white, RL>>,
      <<black, white, black, white, black, LL>>,
      <<black, black, black, black, black, RR>>,
      <<black, black, black, black, black, RR>>,
      <<black, black, black, black, black, RR>>,
      <<white, black, white, black, black, RR>>,
      <<black, black, black, black, black, RR>>,
      <<white, black, black, white, black, RL>>,
      <<white, black, black, white, black, RL>>,
      <<white, black, black, white, black, RL>>,
      <<white, black, black, white, black, RL>>,
      <<white, black, black, white, black, RL>>,
      <<white, black, black, white, black, RL>>,
      <<white, black, black, white, black, RL>>,
      <<black, black, black, black, black, RL>>,
      <<white, white, white, white, white, RL>>,
      <<white, black, white, black, black, RR>>,
      <<white, black, white, black, black, RR>>,
      <<black, black, black, black, black, RR>>,
      <<black, black, black, black, black, RR>>,
      <<black, white, black, white, black, LL>>,
      <<black, black, black, black, black, RR>>,
      <<black, black, black, black, black, RR>>,
      <<white, black, white, black, white, LL>>,
      <<white, black, white, black, white, LL>>,
      <<white, black, white, black, white, LL>>,
      <<white, black, white, black, white, LL>>,
      <<white, black, white, black, white, LL>>,
      <<white, black, white, black, white, LL>>,
      <<white, black, white, black, white, LL>>,
      <<black, white, white, black, black, LR>>,
      <<white, white, white, white, white, RL>>,
      <<black, white, black, white, black, LL>>,
      <<black, black, black, black, black, RR>>,
      <<black, black, black, black, black, RR>>,
      <<black, black, black, black, black, RR>>,
      <<white, black, white, black, black, RR>>,
      <<black, black, black, black, black, RR>>,
      <<black, white, white, black, black, LR>>,
      <<black, white, white, black, white, RL>>,
      <<black, white, white, black, white, RL>>,
      <<black, white, white, black, white, RL>>,
      <<black, white, white, black, white, RL>>,
      <<black, white, white, black, white, RL>>,
      <<black, white, white, black, white, RL>>,
      <<black, white, black, white, black, LL>>,
      <<black, white, white, black, black, LR>>,
      <<white, black, white, black, black, RR>>,
      <<white, black, white, black, black, RR>>,
      <<black, black, black, black, black, RR>>,
      <<black, black, black, black, black, RR>>,
      <<black, white, black, white, black, LL>>,
      <<black, black, black, black, black, RL>>,
      <<black, white, white, black, white, RL>>,
      <<black, white, white, black, black, LR>>,
      <<black, white, white, black, white, RL>>,
      <<black, white, white, black, white, RL>>,
      <<black, white, white, black, white, RL>>,
      <<black, white, white, black, white, RL>>,
      <<black, white, white, black, white, RL>>,
      <<black, black, black, black, black, RR>>,
      <<white, white, white, white, white, RR>>,
      <<black, white, black, white, black, LL>>,
      <<black, white, black, white, black, LL>>,
      <<black, black, black, black, black, RR>>,
      <<black, black, black, black, black, RR>>,
      <<black, black, black, black, black, RR>>,
      <<white, black, black, white, black, RL>>,
      <<black, white, black, white, black, LL>>,
      <<black, white, white, black, black, LR>>,
      <<black, white, white, black, black, LR>>,
      <<black, white, black, white, white, RR>>,
      <<black, white, black, white, white, RR>>,
      <<black, white, white, black, white, RL>>,
      <<black, white, white, black, white, RL>>,
      <<black, black, black, black, black, RL>>,
      <<black, white, white, black, black, LR>>,
      <<white, black, white, black, black, RR>>,
      <<white, black, white, black, black, RR>>,
      <<white, black, white, black, black, RR>>,
      <<black, black, black, black, black, RR>>,
      <<black, black, black, black, black, RR>>,
      <<black, black, black, black, black, RR>>,
      <<white, black, white, black, white, LL>>,
      <<white, white, white, white, white, RR>>,
      <<black, white, black, white, white, RR>>,
      <<black, black, black, black, black, RL>>,
      <<white, black, white, black, white, LL>>,
      <<white, white, white, white, white, RR>>,
      <<black, white, black, white, white, RR>>,
      <<black, black, black, black, black, RL>>,
      <<black, white, white, black, white, RL>>,
      <<black, white, white, black, white, RL>>,
      <<black, white, white, black, white, RL>>,
      <<black, white, black, white, black, LL>>,
      <<black, black, black, black, black, RR>>,
      <<black, black, black, black, black, RR>>,
      <<black, black, black, black, black, RR>>,
      <<black, white, white, black, black, LR>>,
      <<black, white, white, black, white, RL>>,
      <<white, black, white, black, white, LL>>,
      <<white, black, white, black, black, RR>>,
      <<black, white, white, black, black, LR>>,
      <<black, white, white, black, white, RL>>,
      <<white, black, white, black, white, LL>>,
      <<white, black, white, black, black, RR>>,
      <<black, white, white, black, black, LR>>,
      <<black, white, white, black, white, RL>>,
      <<black, white, white, black, white, RL>>,
      <<black, black, black, black, black, RR>>,
      <<white, black, white, black, black, RR>>,
      <<black, black, black, black, black, RR>>,
      <<black, black, black, black, black, RR>>,
      <<black, white, white, black, white, RL>>,
      <<black, white, white, black, black, LR>>,
      <<black, white, white, black, white, RL>>,
      <<black, white, white, black, black, LR>>,
      <<black, white, white, black, white, RL>>,
      <<black, white, white, black, black, LR>>,
      <<black, white, white, black, white, RL>>,
      <<black, white, white, black, black, LR>>,
      <<black, white, white, black, white, RL>>,
      <<black, white, white, black, black, LR>>,
      <<black, white, white, black, white, RL>>,
      <<black, black, black, black, black, RR>>,
      <<black, white, white, black, white, RL>>,
      <<black, black, black, black, black, RR>>,
      <<black, black, black, black, black, RR>>,
      <<black, white, black, white, black, LL>>,
      <<black, white, black, white, black, LL>>,
      <<black, white, black, white, black, LL>>,
      <<black, white, black, white, black, LL>>,
      <<black, white, black, white, black, LL>>,
      <<black, white, black, white, black, LL>>,
      <<black, white, black, white, black, LL>>,
      <<black, white, black, white, black, LL>>,
      <<black, white, black, white, black, LL>>,
      <<black, white, black, white, black, LL>>,
      <<black, white, black, white, black, LL>>,
      <<black, black, black, black, black, RR>>,
      <<black, white, black, white, black, LL>>,
      <<black, black, black, black, black, RR>>,
      <<black, black, black, black, black, RR>>>>

\* the assignment: the k-th node of each dict takes the k-th value
RECURSIVE MergeAll(_)
MergeAll(fs) ==
    IF Len(fs) = 0 THEN EmptyDict
    ELSE IF Len(fs) = 1 THEN fs[1]
    ELSE LET h == Len(fs) \div 2
         IN  MergeAll(SubSeq(fs, 1, h)) @@ MergeAll(SubSeq(fs, h + 1, Len(fs)))

MainModel(g) ==
    MergeAll([k \in DOMAIN g.string_nodes |->
                 (g.string_nodes[k].attrs.color :> MainModelStrings[k])])
    @@ MergeAll([k \in DOMAIN g.edge_nodes |->
                 (g.edge_nodes[k].attrs.enter_and_exit :> MainModelEdges[k])])
    @@ MergeAll([k \in DOMAIN g.knot_nodes |->
                 LET a == g.knot_nodes[k].attrs
                     t == MainModelKnots[k]
                 IN  (a.enter_left :> t[1]) @@ (a.enter_right :> t[2])
                     @@ (a.exit_left :> t[3]) @@ (a.exit_right :> t[4])
                     @@ (a.color :> t[5]) @@ (a.knot :> t[6])])

GridVars(g) == UNION {NodeVars(g.nodes[k]) : k \in DOMAIN g.nodes}

\* m gives every constant of the grid a value of its sort
TotalAssignment(g, m) ==
    /\ DOMAIN m = GridVars(g)
    /\ \A k \in DOMAIN g.nodes :
          \A a \in DOMAIN g.nodes[k].attrs :
              m[g.nodes[k].attrs[a]] \in AttrSort(a)

MainInit ==
    /\ pc = "start"
    /\ num_strings = MainStrings
    /\ num_rows = MainRows
    /\ grid = NoGrid
    /\ constraints = <<>>
    /\ serpinski = EmptyDict
    /\ serpinski_constraints = <<>>
    /\ pos = 0
    /\ model = EmptyDict
    /\ out = <<>>

\* solver.add(constraints); solver.add(serpinski_constraints); solver.check()
SolverCheck ==
    /\ pc = "done"
    /\ \E m \in {MainModel(grid)} :
          IF /\ TotalAssignment(grid, m)
             /\ \A k \in DOMAIN constraints : Holds(constraints[k], m)
             /\ \A k \in DOMAIN serpinski_constraints :
                   Holds(serpinski_constraints[k], m)
          THEN pc' = "decode" /\ model' = m /\ pos' = 1
          ELSE pc' = "no_model" /\ model' = model /\ pos' = pos
    /\ UNCHANGED <<num_strings, num_rows, grid, constraints, serpinski,
                   serpinski_constraints, out>>

MainNext ==
    \/ SetupGrid
    \/ SetupConstraints
    \/ SerpinskiStep
    \/ SerpinskiReturn
    \/ SolverCheck
    \/ DecodeRow
    \/ DecodeReturn

MainSpec == MainInit /\ [][MainNext]_vars

\* C6: with num_strings = 32 and num_rows = 17 the constraints of
\* setup_constraints and setup_serpinski_constraints, over the variables as
\* the code names them, have a satisfying total assignment: both generators
\* complete and the solve call finds a model.
C6_MainSatisfiable ==
    /\ pc \notin {"AssertionError", "KeyError", "no_model"}
    \* the constraints of setup_constraints hold under MainModel once emitted
    /\ pc \in {"serpinski", "done"} =>
          \E m \in {MainModel(grid)} :
              \A k \in DOMAIN constraints : Holds(constraints[k], m)
    /\ pc \in {"decode", "printed"} =>
          /\ TotalAssignment(grid, model)
          /\ Satisfies(constraints, model)
          /\ Satisfies(serpinski_constraints, model)
          /\ Decided(constraints, model) = DOMAIN constraints
          /\ Decided(serpinski_constraints, model) = DOMAIN serpinski_constraints

C6_Witness ==
    /\ pc = "printed"
    /\ num_strings = 32 /\ num_rows = 17
    /\ Len(grid.knot_nodes) = 264
    /\ Len(constraints) + Len(serpinski_constraints) = 1736
    /\ Len(out) = 17

====
